---- MODULE Spec2Model ----
(***************************************************************************)
(* Model of the NLU orchestration of botfuel-dialog.                       *)
(*                                                                         *)
(*   class Nlu            (src/src/nlu.js)       constructor, init,        *)
(*                         compute (spellcheck, qna before/after, local),  *)
(*                         localCompute, qnaCompute, spellcheck            *)
(*   class BotfuelNlu     (src/unnamed/part_000) extends Nlu: constructor  *)
(*                         (credential checks, filter discovery), init,    *)
(*                         compute (entities, trainer request, filter,     *)
(*                         truncation), computeEntities                    *)
(*                                                                         *)
(* A compute call is a chain of continuations, one per `await`.  Each      *)
(* action below is one such continuation: it settles the pending outbound  *)
(* call with an outcome chosen by the environment and runs the code up to  *)
(* the next `await`, the `return` or the `throw`.                          *)
(***************************************************************************)
EXTENDS Integers, Sequences, FiniteSets, TLC

\* ---------------------------------------------------------------- bounds
NumCalls == 1          \* compute calls made on the instance
MaxIntents == 3        \* longest classifier response / filter output
MaxMatches == 1        \* longest QnA match list
NumConcurrent == 2     \* compute calls in flight together (SpecConcurrent)

CallIds == 1..NumCalls

\* ---------------------------------------------------------------- values
\* config.qna: the two modes the code tests for, a value that is neither, and absent
QnaModes == {"before", "after", "other", "absent"}

NoKey == "absent"
SpellKeys == {NoKey, "EN_1"}

\* a value of process.env: absent, the empty string, or a non-empty string
EnvValues == {"absent", "empty", "set"}

\* sentences: what the caller passes and what the spellchecker may answer
Sentences == {"turn of the light"}
CorrectSentences == {"turn of the light", "turn off the light"}
Contexts == {"ctx"}

\* URLs are sequences of pieces so that slice(-1) and += are computed
DefaultTrainerUrl == <<"https://api.botfuel.io/trainer/api/v0">>
TrainerUrls == {<<>>, <<"https://trainer.test/v1">>, <<"https://trainer.test/v1", "/">>}

\* the classifier's raw items: label and confidence in percent
IntentA == [label |-> "lights_off", value |-> 92]
IntentB == [label |-> "lights_on", value |-> 0]

RECURSIVE Alternate(_, _, _)
Alternate(a, b, n) == IF n = 0 THEN <<>> ELSE <<a>> \o Alternate(b, a, n - 1)

\* responses of the classifier: <<>>, <<B>>, <<B, A>>, <<B, A, B>>, ...
\* (B has confidence 0) and <<A>>, <<A, B>>, ...
ClassifierResponses ==
  {Alternate(IntentB, IntentA, n) : n \in 0..MaxIntents}
    \cup {Alternate(IntentA, IntentB, n) : n \in 0..(MaxIntents - 1)}

\* what a user-supplied filter may answer, whatever it was given
FilterOutputs == {Alternate(IntentA, IntentB, n) : n \in 0..MaxIntents}

QnaResponses == {[i \in 1..n |-> "qna"] : n \in 0..MaxMatches}

NoResult == [intents |-> <<>>, entities |-> <<>>]

\* a request as the log keeps it; the fields a service does not take stay empty
NoRequest ==
  [svc |-> "", sentence |-> "", key |-> NoKey, uri |-> <<>>,
   entities |-> <<>>, results |-> <<>>, context |-> ""]

NoInstance ==
  [extractor |-> <<>>, extractorIsNull |-> TRUE, classifier |-> "none",
   qna |-> FALSE, spellchecking |-> FALSE, classificationFilter |-> FALSE]

\* a compute call: where it is suspended (pc), its local variables (sentence,
\* context, entities), what it returned or threw (result, error), and the
\* record of its outbound calls: log[i] is the i-th request, outcomes[i] how
\* it settled, and input, corrected, qnas, res, filtered are the caller's
\* sentence and the answers of the spellchecker, the QnA service, the
\* classifier and the filter; parts is used where the registry is opened up
\* (SpecRegistry): the extractors that have completed, in completion order,
\* each with what it found
IdleCall ==
  [pc |-> "idle", sentence |-> "", context |-> "", entities |-> <<>>,
   result |-> NoResult, error |-> "",
   log |-> <<>>, outcomes |-> <<>>, input |-> "", corrected |-> "",
   qnas |-> <<>>, res |-> <<>>, filtered |-> <<>>, parts |-> <<>>]

\* ---------------------------------------------------------------- state
VARIABLES
  kind,        \* the class that is constructed
  config,      \* the bot config handed to the constructor
  env,         \* process.env: the three credentials and the trainer URL
  files,       \* the bot directory: src/extractors and src/classification-filter.js,
               \* each absent ("none"), loading ("ok") or throwing when loaded ("broken")
  phase,       \* "new", "constructed" or "failed" (the constructor threw)
  ctorError,   \* what the constructor threw
  self,        \* the fields of the instance
  initState,   \* the promise init() returned: "none", "pending", "resolved", "rejected"
  calls        \* the compute calls, by id

vars == <<kind, config, env, files, phase, ctorError, self, initState, calls>>

inputs == <<kind, config, env, files>>

\* ---------------------------------------------------------------- inputs
\* Nlu tests neither the credentials nor the trainer URL, the filter file or
\* multiIntent; they are fixed when an Nlu is constructed.
NluInputs ==
  {[kind |-> "Nlu",
    config |-> [qna |-> q, spellchecking |-> k, multiIntent |-> FALSE],
    env |-> [token |-> "set", id |-> "set", key |-> "set", trainerUrl |-> <<>>],
    files |-> [extractors |-> x, filter |-> "none"]] :
      q \in QnaModes, k \in SpellKeys, x \in {"none", "ok", "broken"}}

\* BotfuelNlu reads config.qna and config.spellchecking only in the inherited
\* constructor, to decide whether to build the two adapters: it is constructed
\* with both set and with both unset.
BotfuelNluInputs ==
  {[kind |-> "BotfuelNlu",
    config |-> [qna |-> a[1], spellchecking |-> a[2], multiIntent |-> m],
    env |-> [token |-> t, id |-> i, key |-> y, trainerUrl |-> u],
    files |-> [extractors |-> x, filter |-> f]] :
      a \in {<<"before", "EN_1">>, <<"absent", NoKey>>}, m \in BOOLEAN,
      t \in EnvValues, i \in EnvValues, y \in EnvValues, u \in TrainerUrls,
      x \in {"none", "ok", "broken"}, f \in {"none", "ok", "broken"}}

Init ==
  /\ \E in \in NluInputs \cup BotfuelNluInputs :
       /\ kind = in.kind
       /\ config = in.config
       /\ env = in.env
       /\ files = in.files
  /\ phase = "new"
  /\ ctorError = ""
  /\ self = NoInstance
  /\ initState = "none"
  /\ calls = [c \in CallIds |-> IdleCall]

\* ---------------------------------------------------------------- construction
\* JavaScript truthiness of a value of process.env / of the config
Truthy(v) == v \notin {"absent", "empty"}

\* getExtractorFiles: the .js files of src/extractors, in discovery order
getExtractorFiles(fs) == IF fs.extractors = "none" THEN <<>> ELSE <<"UserExtractor">>

\* require(file) / new ExtractorConstructor(...) of a user extractor throws
ExtractorLoadThrows(fs) == fs.extractors = "broken"

\* require(classificationFilterPath) throws
FilterLoadThrows(fs) == fs.filter = "broken"

\* Nlu.getExtractors: user extractors, then the boolean extractor
NluGetExtractors(fs) == getExtractorFiles(fs) \o <<"BooleanExtractor">>

\* mutant: the system extractors pushed in the other order
BotfuelNluGetExtractors_LocationFirst(fs) ==
  getExtractorFiles(fs) \o <<"LocationExtractor", "BooleanExtractor">>

\* BotfuelNlu.getExtractors: user extractors, then boolean, then location
BotfuelNluGetExtractors(fs) ==
  getExtractorFiles(fs) \o <<"BooleanExtractor", "LocationExtractor">>

\* this.getExtractors(...) dispatches on the class of the instance
getExtractors(k, fs) ==
  IF k = "BotfuelNlu" THEN BotfuelNluGetExtractors(fs) ELSE NluGetExtractors(fs)

\* Nlu.constructor, once the extractors are loaded
NluConstructor(k, cfg, fs) ==
  [extractor |-> getExtractors(k, fs), extractorIsNull |-> FALSE,
   classifier |-> "new",
   qna |-> Truthy(cfg.qna), spellchecking |-> Truthy(cfg.spellchecking),
   classificationFilter |-> FALSE]

\* mutant: the test of BOTFUEL_APP_KEY (lines 47-49) left out
MissingCredential_NoKeyTest(e) ==
  IF ~Truthy(e.token) THEN "BOTFUEL_APP_TOKEN"
  ELSE IF ~Truthy(e.id) THEN "BOTFUEL_APP_ID"
  ELSE ""

\* the three credential tests of BotfuelNlu.constructor, in their order:
\* the name of the first missing credential, "" when none is missing
MissingCredential(e) ==
  IF ~Truthy(e.token) THEN "BOTFUEL_APP_TOKEN"
  ELSE IF ~Truthy(e.id) THEN "BOTFUEL_APP_ID"
  ELSE IF ~Truthy(e.key) THEN "BOTFUEL_APP_KEY"
  ELSE ""

\* BotfuelNlu.constructor after super(config) and the credential tests
BotfuelNluConstructor(cfg, fs) ==
  [NluConstructor("BotfuelNlu", cfg, fs) EXCEPT
     !.extractor = <<>>, !.extractorIsNull = TRUE,
     !.classificationFilter = (fs.filter = "ok")]

\* what `new Nlu(config)` / `new BotfuelNlu(config)` throws, "" when it returns
ConstructorThrows(k, e, fs) ==
  IF ExtractorLoadThrows(fs) THEN "ExtractorLoadError"
  ELSE IF k = "BotfuelNlu" /\ MissingCredential(e) # ""
       THEN "SdkError: " \o MissingCredential(e) \o " is required for using the nlu service"
  ELSE IF k = "BotfuelNlu" /\ FilterLoadThrows(fs) THEN "FilterLoadError"
  ELSE ""

Construct ==
  /\ phase = "new"
  /\ LET thrown == ConstructorThrows(kind, env, files) IN
       IF thrown # ""
       THEN /\ phase' = "failed"
            /\ ctorError' = thrown
            /\ self' = self
       ELSE /\ phase' = "constructed"
            /\ ctorError' = ctorError
            /\ self' = IF kind = "BotfuelNlu"
                       THEN BotfuelNluConstructor(config, files)
                       ELSE NluConstructor(kind, config, files)
  /\ UNCHANGED <<inputs, initState, calls>>

\* ---------------------------------------------------------------- init
\* init(): Nlu awaits classifier.init(); BotfuelNlu calls super.init() without
\* awaiting it, builds the extractor registry and resolves.
InitCall ==
  /\ phase = "constructed"
  /\ initState = "none"
  /\ IF kind = "BotfuelNlu"
     THEN /\ self' = [self EXCEPT !.classifier = "initialising",
                                  !.extractor = getExtractors(kind, files),
                                  !.extractorIsNull = FALSE]
          /\ initState' = "resolved"
     ELSE /\ self' = [self EXCEPT !.classifier = "initialising"]
          /\ initState' = "pending"
  /\ UNCHANGED <<inputs, phase, ctorError, calls>>

\* classifier.init() settles; only Nlu.init is waiting for it
ClassifierInitSettle ==
  /\ self.classifier = "initialising"
  /\ \E ok \in BOOLEAN :
       /\ self' = [self EXCEPT !.classifier = IF ok THEN "ready" ELSE "failed"]
       /\ initState' = IF initState = "pending"
                       THEN (IF ok THEN "resolved" ELSE "rejected")
                       ELSE initState
  /\ UNCHANGED <<inputs, phase, ctorError, calls>>

\* ---------------------------------------------------------------- compute
\* the three ways a continuation ends: the next await, a throw, the return
Await(r, svc, req) ==
  [r EXCEPT !.pc = svc, !.log = Append(@, [req EXCEPT !.svc = svc])]

Throw(r, err) == [r EXCEPT !.pc = "failed", !.error = err]

\* mutant: the promise of compute is left unresolved at the return
Return_NeverResolves(r, result) == [r EXCEPT !.pc = "returning"]

Return(r, result) == [r EXCEPT !.pc = "done", !.result = result]

\* Nlu.spellcheck: this.spellchecking.compute({ sentence, key })
spellcheck(r, sentence, key) ==
  Await(r, "spellcheck", [NoRequest EXCEPT !.sentence = sentence, !.key = key])

\* Nlu.qnaCompute up to its await: this.qna.getMatchingQnas({ sentence })
qnaCompute(r) ==
  Await(r, "qna", [NoRequest EXCEPT !.sentence = r.sentence])

\* mutant: no intent is synthesized for an empty match list
QnaResult_NoIntentWhenEmpty(qnas) ==
  [intents |-> IF qnas = <<>> THEN <<>> ELSE <<[label |-> "qnas_dialog", value |-> 100]>>,
   entities |-> <<[dim |-> "qnas", value |-> qnas]>>]

\* Nlu.qnaCompute after its await: the fixed intent and the qnas entity
QnaResult(qnas) ==
  [intents |-> <<[label |-> "qnas_dialog", value |-> 100]>>,
   entities |-> <<[dim |-> "qnas", value |-> qnas]>>]

\* this.extractor.compute(sentence); this.extractor may still be null
extractorCompute(r) ==
  IF self.extractorIsNull
  THEN Throw(r, "TypeError")
  ELSE Await(r, "extractor", [NoRequest EXCEPT !.sentence = r.sentence])

\* Nlu.localCompute up to its first await
localCompute(r) == extractorCompute(r)

\* Nlu.localCompute between its two awaits: this.classifier.compute(sentence, entities)
classifierCompute(r) ==
  Await(r, "classifier",
        [NoRequest EXCEPT !.sentence = r.sentence, !.entities = r.entities])

\* mutant: the emptiness test of line 88 inverted
QnaHasMatches_Inverted(result) == Len(result.entities[1].value) = 0

\* Nlu.compute line 88: the QnA result carries matches
QnaHasMatches(result) == Len(result.entities[1].value) # 0

\* mutant: line 94 with a confidence threshold on the top intent
LocalHasIntents_Confident(result) ==
  Len(result.intents) # 0 /\ result.intents[1].value > 0

\* Nlu.compute line 94: the local result carries intents
LocalHasIntents(result) == Len(result.intents) # 0

\* mutant: with a QnA mode set, both computations are started at once
NluBranch_Parallel(r) ==
  IF config.qna \in {"before", "after"}
  THEN extractorCompute(qnaCompute(r))
  ELSE localCompute(r)

\* Nlu.compute lines 86-99: the branch on config.qna, entered once the
\* sentence is final
NluBranch(r) ==
  IF config.qna = "before" THEN qnaCompute(r)
  ELSE IF config.qna = "after" THEN localCompute(r)
  ELSE localCompute(r)

\* Nlu.compute lines 81-85
NluComputeStart(r) ==
  IF Truthy(config.spellchecking)
  THEN spellcheck(r, r.sentence, config.spellchecking)
  ELSE NluBranch(r)

\* mutant: line 84 left out, the original sentence goes on
NluAfterSpellcheck_KeepsOriginal(r, correctSentence) == NluBranch(r)

\* Nlu.compute after `await this.spellcheck(...)`: sentence = result.correctSentence
NluAfterSpellcheck(r, correctSentence) ==
  NluBranch([r EXCEPT !.sentence = correctSentence])

\* mutant: the "before" branch returns the QnA result whatever it holds
NluAfterQna_NoFallback(r, qnas) == Return(r, QnaResult(qnas))

\* Nlu.compute after qnaCompute settled with `qnas`
NluAfterQna(r, qnas) ==
  LET result == QnaResult(qnas)
  IN IF config.qna = "before"
     THEN IF QnaHasMatches(result) THEN Return(r, result) ELSE localCompute(r)
     ELSE Return(r, result)

\* mutant: line 92 tests that config.qna is set, not that it is "after"
NluAfterLocal_AnyQna(r, intents) ==
  LET result == [intents |-> intents, entities |-> r.entities]
  IN IF Truthy(config.qna) /\ config.qna # "before"
     THEN IF LocalHasIntents(result) THEN Return(r, result) ELSE qnaCompute(r)
     ELSE Return(r, result)

\* Nlu.compute after localCompute settled with `intents`
NluAfterLocal(r, intents) ==
  LET result == [intents |-> intents, entities |-> r.entities]
  IN IF config.qna = "after"
     THEN IF LocalHasIntents(result) THEN Return(r, result) ELSE qnaCompute(r)
     ELSE Return(r, result)

\* mutant: line 108 without its default, an unset variable read as ''
TrainerUrl_NoDefault(e) ==
  IF e.trainerUrl = <<>> THEN <<"/">>
  ELSE IF e.trainerUrl[Len(e.trainerUrl)] # "/" THEN e.trainerUrl \o <<"/">>
  ELSE e.trainerUrl

\* BotfuelNlu.compute lines 108-112: the base URL, its default and the slash
TrainerUrl(e) ==
  LET trainerUrl == IF e.trainerUrl # <<>> THEN e.trainerUrl ELSE DefaultTrainerUrl
  IN IF trainerUrl[Len(trainerUrl)] # "/" THEN trainerUrl \o <<"/">> ELSE trainerUrl

\* BotfuelNlu.compute lines 114-127: rp(options)
TrainerRequest(r) ==
  Await(r, "classifier",
        [NoRequest EXCEPT !.uri = TrainerUrl(env) \o <<"classify">>,
                          !.sentence = r.sentence])

\* new ClassificationResult(data)
ClassificationResult(data) == [label |-> data.label, value |-> data.value]

\* mutant: slice(0, 2) whatever config.multiIntent is
Truncate_Two(results, multiIntent) ==
  SubSeq(results, 1, IF Len(results) < 2 THEN Len(results) ELSE 2)

\* BotfuelNlu.compute line 132: slice(0, multiIntent ? 2 : 1)
Truncate(results, multiIntent) ==
  LET end == IF multiIntent THEN 2 ELSE 1
  IN SubSeq(results, 1, IF Len(results) < end THEN Len(results) ELSE end)

\* mutant: the truncation of line 132 moved out of the `if` of line 130
BotfuelNluAfterClassifier_Truncates(r, res) ==
  LET classificationResults == [i \in 1..Len(res) |-> ClassificationResult(res[i])]
  IN IF self.classificationFilter
     THEN Await(r, "filter",
                [NoRequest EXCEPT !.results = classificationResults,
                                  !.context = r.context])
     ELSE Return(r, [intents |-> Truncate(classificationResults, config.multiIntent),
                     entities |-> r.entities])

\* mutant: the list is truncated before the filter sees it
BotfuelNluAfterClassifier_FilterSeesTop(r, res) ==
  LET classificationResults == [i \in 1..Len(res) |-> ClassificationResult(res[i])]
  IN IF self.classificationFilter
     THEN Await(r, "filter",
                [NoRequest EXCEPT
                   !.results = Truncate(classificationResults, config.multiIntent),
                   !.context = r.context])
     ELSE Return(r, [intents |-> classificationResults, entities |-> r.entities])

\* BotfuelNlu.compute lines 129-134, up to the filter's await or the return
BotfuelNluAfterClassifier(r, res) ==
  LET classificationResults == [i \in 1..Len(res) |-> ClassificationResult(res[i])]
  IN IF self.classificationFilter
     THEN Await(r, "filter",
                [NoRequest EXCEPT !.results = classificationResults,
                                  !.context = r.context])
     ELSE Return(r, [intents |-> classificationResults, entities |-> r.entities])

\* BotfuelNlu.compute lines 131-134, after the filter settled
BotfuelNluAfterFilter(r, filtered) ==
  Return(r, [intents |-> Truncate(filtered, config.multiIntent),
             entities |-> r.entities])

\* what the registry answers: nothing, or one entity per extractor,
\* concatenated in registration order
ExtractorOutputs ==
  {<<>>, [i \in 1..Len(self.extractor) |->
            [dim |-> self.extractor[i], value |-> <<"found">>]]}

\* mutant: a failed QnA or classifier call caught and read as an empty answer
Rejected_AsEmpty(r, svc) ==
  IF kind = "Nlu" /\ svc = "qna" THEN NluAfterQna(r, <<>>)
  ELSE IF kind = "Nlu" /\ svc = "classifier" THEN NluAfterLocal(r, <<>>)
  ELSE Throw(r, svc)

\* mutant: a failed classifier request is sent once more
Rejected_RetriesClassifier(r, svc) ==
  IF svc = "classifier"
     /\ Cardinality({i \in 1..Len(r.log) : r.log[i].svc = "classifier"}) < 2
  THEN Await(r, "classifier", r.log[Len(r.log)])
  ELSE Throw(r, svc)

\* a rejected await: the error leaves the async function, which rejects
Rejected(r, svc) == Throw(r, svc)

\* the record of how the pending request settled
Settled(r, outcome) == [r EXCEPT !.outcomes = Append(@, outcome)]

\* mutant: the sentence kept in a field of the instance, which the calls share
Set_SharedSentence(c, r) ==
  calls' = [d \in DOMAIN calls |->
              IF d = c THEN r
              ELSE IF calls[d].pc \in {"idle", "done", "failed"} THEN calls[d]
              ELSE [calls[d] EXCEPT !.sentence = r.sentence]]

\* the call's record is replaced; nothing else of the instance is written
Set(c, r) == calls' = [calls EXCEPT ![c] = r]

ComputeStart(c) ==
  /\ phase = "constructed"
  /\ calls[c].pc = "idle"
  /\ \E sentence \in Sentences, context \in Contexts :
       LET r == [calls[c] EXCEPT !.sentence = sentence, !.input = sentence,
                                 !.context = context]
       IN Set(c, IF kind = "BotfuelNlu" THEN extractorCompute(r) ELSE NluComputeStart(r))
  /\ UNCHANGED <<inputs, phase, ctorError, self, initState>>

SpellcheckSettle(c) ==
  /\ calls[c].pc = "spellcheck"
  /\ \/ Set(c, Rejected(Settled(calls[c], "error"), "spellcheck"))
     \/ \E correctSentence \in CorrectSentences :
          LET r == [Settled(calls[c], "ok") EXCEPT !.corrected = correctSentence]
          IN Set(c, NluAfterSpellcheck(r, correctSentence))
  /\ UNCHANGED <<inputs, phase, ctorError, self, initState>>

QnaSettle(c) ==
  /\ calls[c].pc = "qna"
  /\ \/ Set(c, Rejected(Settled(calls[c], "error"), "qna"))
     \/ \E qnas \in QnaResponses :
          LET r == [Settled(calls[c], "ok") EXCEPT !.qnas = qnas]
          IN Set(c, NluAfterQna(r, qnas))
  /\ UNCHANGED <<inputs, phase, ctorError, self, initState>>

ExtractorSettle(c) ==
  /\ calls[c].pc = "extractor"
  /\ \/ Set(c, Rejected(Settled(calls[c], "error"), "extractor"))
     \/ \E entities \in ExtractorOutputs :
          LET r == [Settled(calls[c], "ok") EXCEPT !.entities = entities]
          IN Set(c, IF kind = "BotfuelNlu" THEN TrainerRequest(r) ELSE classifierCompute(r))
  /\ UNCHANGED <<inputs, phase, ctorError, self, initState>>

ClassifierSettle(c) ==
  /\ calls[c].pc = "classifier"
  /\ \/ Set(c, Rejected(Settled(calls[c], "error"), "classifier"))
     \/ \E res \in ClassifierResponses :
          LET r == [Settled(calls[c], "ok") EXCEPT !.res = res]
          IN Set(c, IF kind = "BotfuelNlu"
                    THEN BotfuelNluAfterClassifier(r, res)
                    ELSE NluAfterLocal(r, res))
  /\ UNCHANGED <<inputs, phase, ctorError, self, initState>>

FilterSettle(c) ==
  /\ calls[c].pc = "filter"
  /\ \/ Set(c, Rejected(Settled(calls[c], "error"), "filter"))
     \/ \E filtered \in FilterOutputs :
          LET r == [Settled(calls[c], "ok") EXCEPT !.filtered = filtered]
          IN Set(c, BotfuelNluAfterFilter(r, filtered))
  /\ UNCHANGED <<inputs, phase, ctorError, self, initState>>

Next ==
  \/ Construct
  \/ InitCall
  \/ ClassifierInitSettle
  \/ \E c \in CallIds : ComputeStart(c)
  \/ \E c \in CallIds : SpellcheckSettle(c)
  \/ \E c \in CallIds : QnaSettle(c)
  \/ \E c \in CallIds : ExtractorSettle(c)
  \/ \E c \in CallIds : ClassifierSettle(c)
  \/ \E c \in CallIds : FilterSettle(c)

Spec == Init /\ [][Next]_vars

\* Every outbound call eventually settles: the promise a compute awaits is
\* resolved or rejected, and the event loop then runs the continuation.
SettlesEventually ==
  \A c \in CallIds :
    /\ WF_vars(SpellcheckSettle(c))
    /\ WF_vars(QnaSettle(c))
    /\ WF_vars(ExtractorSettle(c))
    /\ WF_vars(ClassifierSettle(c))
    /\ WF_vars(FilterSettle(c))

\* The fair runs start from the inputs whose construction succeeds and that
\* differ in what compute does: every QnA mode of Nlu with and without
\* spellchecking, and a BotfuelNlu with and without filter.
FairInputs ==
  {in \in NluInputs : in.files.extractors = "none"}
  \cup
  {in \in BotfuelNluInputs :
     /\ in.config = [qna |-> "absent", spellchecking |-> NoKey, multiIntent |-> TRUE]
     /\ in.env = [token |-> "set", id |-> "set", key |-> "set", trainerUrl |-> <<>>]
     /\ in.files.extractors = "ok"
     /\ in.files.filter \in {"none", "ok"}}

InitFair ==
  /\ \E in \in FairInputs :
       /\ kind = in.kind
       /\ config = in.config
       /\ env = in.env
       /\ files = in.files
  /\ phase = "new"
  /\ ctorError = ""
  /\ self = NoInstance
  /\ initState = "none"
  /\ calls = [c \in CallIds |-> IdleCall]

SpecFair == InitFair /\ [][Next]_vars /\ SettlesEventually

\* ---------------------------------------------------------------- the registry, opened up
\* In Spec the registry is one outbound call (ExtractorSettle).  Here its
\* extractors are invoked together and complete one by one, in any order;
\* when the last one has completed the registry merges what they found and
\* compute goes on to the classifier request.
RegistryInputs ==
  {in \in BotfuelNluInputs :
     /\ in.config = [qna |-> "absent", spellchecking |-> NoKey, multiIntent |-> FALSE]
     /\ in.env = [token |-> "set", id |-> "set", key |-> "set", trainerUrl |-> <<>>]
     /\ in.files.filter = "none"
     /\ in.files.extractors # "broken"}

InitRegistry ==
  /\ \E in \in RegistryInputs :
       /\ kind = in.kind
       /\ config = in.config
       /\ env = in.env
       /\ files = in.files
  /\ phase = "new"
  /\ ctorError = ""
  /\ self = NoInstance
  /\ initState = "none"
  /\ calls = [c \in CallIds |-> IdleCall]

\* what the extractor registered at position i found, <<>> while it is pending
PartOf(parts, i) ==
  IF \E k \in 1..Len(parts) : parts[k].extractor = i
  THEN parts[CHOOSE k \in 1..Len(parts) : parts[k].extractor = i].entities
  ELSE <<>>

RECURSIVE CompositeMerge(_, _)
\* the registry's merge over the first n registered extractors
CompositeMerge(parts, n) ==
  IF n = 0 THEN <<>> ELSE CompositeMerge(parts, n - 1) \o PartOf(parts, n)

\* what one extractor answers: nothing, or one entity of its dimension
ExtractorFinds(i) == {<<>>, <<[dim |-> self.extractor[i], value |-> <<"found">>]>>}

ExtractorComplete(c, i) ==
  /\ calls[c].pc = "extractor"
  /\ i \in 1..Len(self.extractor)
  /\ \A k \in 1..Len(calls[c].parts) : calls[c].parts[k].extractor # i
  /\ \/ Set(c, Rejected(Settled(calls[c], "error"), "extractor"))
     \/ \E found \in ExtractorFinds(i) :
          LET r1 == [calls[c] EXCEPT
                       !.parts = Append(@, [extractor |-> i, entities |-> found])]
              r2 == [Settled(r1, "ok") EXCEPT
                       !.entities = CompositeMerge(r1.parts, Len(self.extractor))]
          IN Set(c, IF Len(r1.parts) < Len(self.extractor)
                    THEN r1
                    ELSE IF kind = "BotfuelNlu" THEN TrainerRequest(r2)
                         ELSE classifierCompute(r2))
  /\ UNCHANGED <<inputs, phase, ctorError, self, initState>>

NextRegistry ==
  \/ Construct
  \/ InitCall
  \/ \E c \in CallIds : ComputeStart(c)
  \/ \E c \in CallIds : \E i \in 1..Len(self.extractor) : ExtractorComplete(c, i)

SpecRegistry == InitRegistry /\ [][NextRegistry]_vars

\* ---------------------------------------------------------------- interleaved calls
\* Several compute calls on one instance, their continuations interleaved in
\* every order.  The inputs are an Nlu with spellchecking and QnA first (a
\* call of it goes through all four services), and a BotfuelNlu without filter.
ConcurrentIds == 1..NumConcurrent

ConcurrentInputs ==
  {in \in NluInputs :
     /\ in.config.qna = "before"
     /\ in.config.spellchecking # NoKey
     /\ in.files.extractors = "none"}
  \cup
  {in \in BotfuelNluInputs :
     /\ in.config = [qna |-> "absent", spellchecking |-> NoKey, multiIntent |-> FALSE]
     /\ in.env = [token |-> "set", id |-> "set", key |-> "set", trainerUrl |-> <<>>]
     /\ in.files = [extractors |-> "ok", filter |-> "none"]}

InitConcurrent ==
  /\ \E in \in ConcurrentInputs :
       /\ kind = in.kind
       /\ config = in.config
       /\ env = in.env
       /\ files = in.files
  /\ phase = "new"
  /\ ctorError = ""
  /\ self = NoInstance
  /\ initState = "none"
  /\ calls = [c \in ConcurrentIds |-> IdleCall]

NextConcurrent ==
  \/ Construct
  \/ InitCall
  \/ ClassifierInitSettle
  \/ \E c \in ConcurrentIds : ComputeStart(c)
  \/ \E c \in ConcurrentIds : SpellcheckSettle(c)
  \/ \E c \in ConcurrentIds : QnaSettle(c)
  \/ \E c \in ConcurrentIds : ExtractorSettle(c)
  \/ \E c \in ConcurrentIds : ClassifierSettle(c)

SpecConcurrent == InitConcurrent /\ [][NextConcurrent]_vars

\* ---------------------------------------------------------------- reading the record
\* the services call c has sent a request to
Requested(c) == {calls[c].log[i].svc : i \in 1..Len(calls[c].log)}

\* the local result of call c: what the classifier and the registry answered
LocalResult(c) == [intents |-> calls[c].res, entities |-> calls[c].entities]

Returned(c) == calls[c].pc = "done"

\* ---------------------------------------------------------------- claims
QnasDialog == [label |-> "qnas_dialog", value |-> 100]

\* C1: with config.qna = "before", a compute call whose QnA request returned
\* a non-empty match list has returned at once: it never sends a request to
\* the extractor registry or the classifier, and its result is the QnA
\* result (the qnas_dialog intent and the qnas entity holding the matches).
C1_QnaBeforeShortCircuits ==
  \A c \in CallIds :
    (kind = "Nlu" /\ config.qna = "before" /\ calls[c].qnas # <<>>) =>
      /\ Requested(c) \cap {"extractor", "classifier"} = {}
      /\ Returned(c)
      /\ calls[c].result =
           [intents |-> <<QnasDialog>>,
            entities |-> <<[dim |-> "qnas", value |-> calls[c].qnas]>>]

C1_Witness ==
  \E c \in CallIds :
    /\ kind = "Nlu" /\ config.qna = "before"
    /\ calls[c].qnas # <<>>
    /\ Returned(c)

\* C2: with config.qna = "after", a compute call whose local computation
\* returned at least one intent, whatever its confidence (0 included), never
\* sends a request to the QnA service and returns the local result unchanged.
C2_LocalAfterShortCircuits ==
  \A c \in CallIds :
    (kind = "Nlu" /\ config.qna = "after" /\ calls[c].res # <<>>) =>
      /\ "qna" \notin Requested(c)
      /\ Returned(c)
      /\ calls[c].result = LocalResult(c)

C2_Witness ==
  \E c \in CallIds :
    /\ kind = "Nlu" /\ config.qna = "after"
    /\ Returned(c)
    /\ Len(calls[c].res) = 1
    /\ calls[c].res[1].value = 0

\* C3: with config.qna = "before", a compute call that returns after the QnA
\* service answered an empty match list returns exactly the local result
\* computed for the sentence the QnA request carried: no qnas_dialog intent
\* and no qnas entity is left in it.
C3_EmptyQnaGivesLocalResult ==
  \A c \in CallIds :
    (kind = "Nlu" /\ config.qna = "before" /\ Returned(c) /\ calls[c].qnas = <<>>) =>
      /\ calls[c].result = LocalResult(c)
      /\ \A i \in 1..Len(calls[c].result.intents) :
           calls[c].result.intents[i].label # "qnas_dialog"
      /\ \A i \in 1..Len(calls[c].result.entities) :
           calls[c].result.entities[i].dim # "qnas"
      /\ \E q \in 1..Len(calls[c].log) :
           /\ calls[c].log[q].svc = "qna"
           /\ \A i \in (q + 1)..Len(calls[c].log) :
                /\ calls[c].log[i].svc \in {"extractor", "classifier"}
                /\ calls[c].log[i].sentence = calls[c].log[q].sentence

C3_Witness ==
  \E c \in CallIds :
    /\ kind = "Nlu" /\ config.qna = "before"
    /\ Returned(c) /\ calls[c].qnas = <<>>
    /\ calls[c].corrected # "" /\ calls[c].corrected # calls[c].input
    /\ calls[c].result.intents # <<>> /\ calls[c].result.entities # <<>>

\* C4: with config.qna neither "before" nor "after", no compute call ever
\* sends a request to the QnA service; a call that returns has run the local
\* computation and returns its result, empty intents included.
C4_NoQnaWhenAbsent ==
  (kind = "Nlu" /\ config.qna \notin {"before", "after"}) =>
    \A c \in CallIds :
      /\ "qna" \notin Requested(c)
      /\ Returned(c) =>
           /\ {"extractor", "classifier"} \subseteq Requested(c)
           /\ calls[c].result = LocalResult(c)

C4_Witness ==
  \E c \in CallIds :
    /\ kind = "Nlu" /\ config.qna \notin {"before", "after"}
    /\ Returned(c)
    /\ calls[c].result.intents = <<>>

Min(a, b) == IF a < b THEN a ELSE b

\* C5: with a classification filter configured, the intents compute returns
\* are the first k elements of the filter's output, in the filter's order,
\* with k = 2 when config.multiIntent is true and k = 1 otherwise, however
\* long the filter's output is.
C5_FilterOutputTruncated ==
  \A c \in CallIds :
    (kind = "BotfuelNlu" /\ self.classificationFilter /\ Returned(c)) =>
      LET k == IF config.multiIntent THEN 2 ELSE 1
          intents == calls[c].result.intents
      IN /\ Len(intents) = Min(k, Len(calls[c].filtered))
         /\ \A i \in 1..Len(intents) : intents[i] = calls[c].filtered[i]

C5_Witness ==
  \E c \in CallIds :
    /\ kind = "BotfuelNlu" /\ self.classificationFilter /\ Returned(c)
    /\ ~config.multiIntent
    /\ Len(calls[c].filtered) > Len(calls[c].res)
    /\ Len(calls[c].filtered) = MaxIntents
    /\ Len(calls[c].result.intents) = 1

\* C6: with no classification filter configured, the intents compute returns
\* are the classifier's response item by item, same length and same order,
\* for both values of config.multiIntent.
C6_NoFilterNoTruncation ==
  \A c \in CallIds :
    (kind = "BotfuelNlu" /\ ~self.classificationFilter /\ Returned(c)) =>
      LET intents == calls[c].result.intents
      IN /\ Len(intents) = Len(calls[c].res)
         /\ \A i \in 1..Len(intents) :
              /\ intents[i].label = calls[c].res[i].label
              /\ intents[i].value = calls[c].res[i].value

C6_Witness ==
  \E c \in CallIds :
    /\ kind = "BotfuelNlu" /\ ~self.classificationFilter /\ Returned(c)
    /\ ~config.multiIntent
    /\ Len(calls[c].res) >= 2
    /\ Len(calls[c].result.intents) = Len(calls[c].res)

Missing(v) == v \in {"absent", "empty"}

SomeCredentialMissing == Missing(env.token) \/ Missing(env.id) \/ Missing(env.key)

\* the configuration error the constructor raises for the first missing credential
ConfigurationError ==
  IF Missing(env.token)
  THEN "SdkError: BOTFUEL_APP_TOKEN is required for using the nlu service"
  ELSE IF Missing(env.id)
  THEN "SdkError: BOTFUEL_APP_ID is required for using the nlu service"
  ELSE "SdkError: BOTFUEL_APP_KEY is required for using the nlu service"

NoCallStarted == \A c \in CallIds : calls[c] = IdleCall

DefaultClassifyUri == <<"https://api.botfuel.io/trainer/api/v0", "/", "classify">>

\* C8 as stated: with the three credentials present and no base-URL override
\* in the environment, constructing a BotfuelNlu fails.
C8_Original ==
  (kind = "BotfuelNlu" /\ ~SomeCredentialMissing /\ env.trainerUrl = <<>>
     /\ phase # "new") => phase = "failed"

\* C8 as amended: the base-URL override is optional.  With the three
\* credentials present and no override, construction fails only if loading
\* a user extractor or the classification filter throws, and every
\* classifier request of compute goes to the default base URL,
\* https://api.botfuel.io/trainer/api/v0/classify.
C8_BaseUrlOptional ==
  (kind = "BotfuelNlu" /\ ~SomeCredentialMissing /\ env.trainerUrl = <<>>
     /\ phase # "new") =>
    /\ phase = "failed" =>
         /\ "broken" \in {files.extractors, files.filter}
         /\ ctorError \in {"ExtractorLoadError", "FilterLoadError"}
    /\ "broken" \notin {files.extractors, files.filter} => phase = "constructed"
    /\ \A c \in CallIds : \A i \in 1..Len(calls[c].log) :
         calls[c].log[i].svc = "classifier" => calls[c].log[i].uri = DefaultClassifyUri

C8_Witness ==
  /\ kind = "BotfuelNlu" /\ env.trainerUrl = <<>> /\ phase = "constructed"
  /\ \E c \in CallIds : \E i \in 1..Len(calls[c].log) :
       /\ calls[c].log[i].svc = "classifier"
       /\ calls[c].log[i].uri = DefaultClassifyUri

C10_FailureNeverFallsBack ==
  \A c \in CallIds :
    LET r == calls[c] IN
    /\ \A i \in 1..Len(r.outcomes) :
         r.outcomes[i] = "error" =>
           /\ i = Len(r.log)
           /\ r.pc = "failed"
           /\ r.error = r.log[i].svc
           /\ r.result = NoResult
           /\ (config.qna = "before" /\ r.log[i].svc = "qna") =>
                Requested(c) \cap {"extractor", "classifier"} = {}
           /\ (config.qna = "after" /\ r.log[i].svc \in {"extractor", "classifier"}) =>
                "qna" \notin Requested(c)
    /\ Returned(c) => \A i \in 1..Len(r.outcomes) : r.outcomes[i] = "ok"

C10_Witness ==
  \E c \in CallIds :
    LET r == calls[c] IN
    /\ kind = "Nlu" /\ config.qna = "after"
    /\ r.pc = "failed"
    /\ Len(r.outcomes) = Len(r.log)
    /\ r.log[Len(r.log)].svc = "classifier"
    /\ r.outcomes[Len(r.log)] = "error"

\* the requests of call c that have not settled yet
Pending(c) == Len(calls[c].log) - Len(calls[c].outcomes)

\* the positions of the requests call c sent to svc
Positions(c, svc) == {i \in 1..Len(calls[c].log) : calls[c].log[i].svc = svc}

\* C11: at every moment a compute call has at most one outbound request
\* pending, and it is its latest one; when a call has sent both a QnA
\* request and a local (extractor) request, the earlier computation had
\* returned successfully and been found empty before the later one was
\* started: QnA first with no match under "before", extractor then
\* classifier with no intent under "after".
C11_QnaAndLocalNeverOverlap ==
  \A c \in CallIds :
    LET r == calls[c] IN
    /\ Pending(c) \in {0, 1}
    /\ \A q \in Positions(c, "qna"), x \in Positions(c, "extractor") :
         IF q < x
         THEN /\ config.qna = "before"
              /\ Len(r.outcomes) >= q /\ r.outcomes[q] = "ok"
              /\ r.qnas = <<>>
         ELSE /\ config.qna = "after"
              /\ q = x + 2
              /\ r.log[x + 1].svc = "classifier"
              /\ r.outcomes[x] = "ok" /\ r.outcomes[x + 1] = "ok"
              /\ r.res = <<>>

C11_Witness ==
  \E c \in CallIds :
    /\ kind = "Nlu" /\ config.qna = "after"
    /\ calls[c].pc = "qna"
    /\ Positions(c, "extractor") # {}
    /\ Pending(c) = 1

\* what the extractor called name found in call c, <<>> if it has not completed
FoundBy(c, name) ==
  LET hits == {k \in 1..Len(calls[c].parts) :
                 self.extractor[calls[c].parts[k].extractor] = name}
  IN IF hits = {} THEN <<>> ELSE calls[c].parts[CHOOSE k \in hits : TRUE].entities

C13_FilterOnceAfterClassifier ==
  \A c \in CallIds :
    LET r == calls[c] IN
    /\ Cardinality(Positions(c, "filter")) <= 1
    /\ \A i \in Positions(c, "filter") :
         /\ kind = "BotfuelNlu" /\ self.classificationFilter
         /\ i > 1
         /\ r.log[i - 1].svc = "classifier" /\ r.outcomes[i - 1] = "ok"
         /\ Len(r.log[i].results) = Len(r.res)
         /\ \A k \in 1..Len(r.res) :
              /\ r.log[i].results[k].label = r.res[k].label
              /\ r.log[i].results[k].value = r.res[k].value
         /\ r.log[i].context = r.context /\ r.context \in Contexts
         /\ "qna" \notin Requested(c)
         /\ (Len(r.outcomes) >= i /\ r.outcomes[i] = "error") =>
              (r.pc = "failed" /\ r.error = "filter" /\ r.result = NoResult)

C13_Witness ==
  \E c \in CallIds :
    /\ kind = "BotfuelNlu" /\ self.classificationFilter
    /\ calls[c].pc = "failed" /\ calls[c].error = "filter"
    /\ Len(calls[c].res) = MaxIntents
    /\ Positions(c, "filter") # {}

\* what call c has been given: its arguments and the answers to its requests
Given(c) ==
  <<calls[c].input, calls[c].context, calls[c].outcomes, calls[c].corrected,
    calls[c].qnas, calls[c].entities, calls[c].res, calls[c].filtered>>

\* what call c has done: where it stands, its requests, its result or error
Done(c) == <<calls[c].pc, calls[c].log, calls[c].result, calls[c].error>>

\* call c has started on an instance whose extractor was there to be called
Started(c) == calls[c].pc # "idle" /\ calls[c].error # "TypeError"

\* every request of call c carries the sentence of call c: the caller's in
\* the first request, the spellchecker's answer to call c afterwards
OwnSentence(c) ==
  \A i \in 1..Len(calls[c].log) :
    calls[c].log[i].sentence =
      IF calls[c].corrected # "" /\ i > 1 THEN calls[c].corrected ELSE calls[c].input

\* C14: with compute calls interleaved in every order on one instance, a
\* step of one call changes that call's record only and leaves the instance
\* (config, extractor registry, adapters, filter) as it was; every request a
\* call sends carries its own sentence; and two started calls that were
\* given the same arguments and the same answers have sent the same requests
\* and have the same result or error.
C14_CallsAreIndependent ==
  /\ [](\A c \in ConcurrentIds : OwnSentence(c))
  /\ [](\A c, d \in ConcurrentIds :
          (Started(c) /\ Started(d) /\ Given(c) = Given(d)) => Done(c) = Done(d))
  /\ [][\A c \in ConcurrentIds :
          calls'[c] # calls[c] =>
            /\ self' = self /\ config' = config /\ env' = env /\ files' = files
            /\ \A d \in ConcurrentIds \ {c} : calls'[d] = calls[d]]_vars

C14_Witness ==
  /\ kind = "Nlu"
  /\ calls[1].pc = "extractor" /\ calls[2].pc = "qna"
  /\ calls[1].corrected # "" /\ calls[2].corrected # ""
  /\ calls[1].corrected # calls[2].corrected

\* the result of call c is the one qnaCompute built: the last request of the
\* call went to the QnA service and was answered
FromQna(c) ==
  LET r == calls[c] IN
  /\ Returned(c)
  /\ r.log # <<>>
  /\ r.log[Len(r.log)].svc = "qna"

\* C15: a result that Nlu.qnaCompute built has exactly one intent, qnas_dialog
\* with value 1.0 (100 here), and exactly one entity, of dimension "qnas",
\* whose value is the match list the QnA service answered; and with
\* config.qna = "after", a call whose classifier answered no intent and
\* that returned has returned that QnA result, empty match list included.
C15_QnaResultShape ==
  \A c \in CallIds :
    LET r == calls[c] IN
    /\ (kind = "Nlu" /\ FromQna(c)) =>
         /\ Len(r.result.intents) = 1
         /\ r.result.intents[1] = QnasDialog
         /\ Len(r.result.entities) = 1
         /\ r.result.entities[1].dim = "qnas"
         /\ r.result.entities[1].value = r.qnas
    /\ (kind = "Nlu" /\ config.qna = "after" /\ Returned(c)
          /\ "classifier" \in Requested(c) /\ r.res = <<>>) =>
         /\ FromQna(c)
         /\ r.result.intents = <<QnasDialog>>
         /\ r.result.entities = <<[dim |-> "qnas", value |-> r.qnas]>>

C15_Witness ==
  \E c \in CallIds :
    /\ kind = "Nlu" /\ config.qna = "after"
    /\ FromQna(c)
    /\ calls[c].res = <<>> /\ calls[c].qnas = <<>>
    /\ calls[c].result.intents = <<QnasDialog>>
    /\ calls[c].result.entities[1].value = <<>>

\* C16: in a local computation (Nlu.localCompute, BotfuelNlu.compute) the
\* classifier request is sent right after the extractor registry has
\* answered successfully, and in Nlu carries the entities it answered; a call
\* whose extraction failed has sent no classifier request and has failed; a
\* call sends at most one extractor request and at most one classifier
\* request; and a failed classifier request makes the call fail with the
\* classifier's error, with no result.
C16_ExtractThenClassifyOnce ==
  \A c \in CallIds :
    LET r == calls[c] IN
    /\ Cardinality(Positions(c, "extractor")) <= 1
    /\ Cardinality(Positions(c, "classifier")) <= 1
    /\ \A i \in Positions(c, "classifier") :
         /\ i > 1
         /\ r.log[i - 1].svc = "extractor"
         /\ r.outcomes[i - 1] = "ok"
         /\ r.log[i].sentence = r.sentence
         /\ kind = "Nlu" => r.log[i].entities = r.entities
         /\ (Len(r.outcomes) >= i /\ r.outcomes[i] = "error") =>
              (r.pc = "failed" /\ r.error = "classifier" /\ r.result = NoResult)
    /\ \A i \in Positions(c, "extractor") :
         (Len(r.outcomes) >= i /\ r.outcomes[i] = "error") =>
           /\ Positions(c, "classifier") = {}
           /\ r.pc = "failed" /\ r.error = "extractor" /\ r.result = NoResult
         
C16_Witness ==
  \E c \in CallIds :
    LET r == calls[c] IN
    /\ r.pc = "failed" /\ r.error = "classifier"
    /\ Len(r.log) >= 2
    /\ r.log[Len(r.log)].svc = "classifier"
    /\ r.log[Len(r.log) - 1].svc = "extractor"
    /\ r.outcomes[Len(r.log)] = "error"
    /\ r.entities # <<>>

\* C17: once the promise of init() has resolved, initialisation is complete:
\* the parent's init has finished, that is the classifier's init() has
\* resolved, and the extractor registry is set.
C17_InitResolvedMeansComplete ==
  initState = "resolved" =>
    /\ self.classifier = "ready"
    /\ ~self.extractorIsNull

\* call c has been started and has neither returned nor thrown
InFlight(c) == calls[c].pc \notin {"idle", "done", "failed"}

\* C18: when every outbound call eventually settles, a started compute
\* eventually settles, with a result or with an error; it has sent at most
\* one spellcheck request, at most one QnA request and run at most one local
\* computation (one extractor request, one classifier request); and while it
\* is in flight exactly one of its outbound calls is pending, the one it is
\* suspended on, none being pending once it has settled.
C18_ComputeSettles ==
  /\ \A c \in CallIds : (calls[c].pc # "idle") ~> (calls[c].pc \in {"done", "failed"})
  /\ [](\A c \in CallIds :
          LET r == calls[c] IN
          /\ Cardinality(Positions(c, "spellcheck")) <= 1
          /\ Cardinality(Positions(c, "qna")) <= 1
          /\ Cardinality(Positions(c, "extractor")) <= 1
          /\ Cardinality(Positions(c, "classifier")) <= 1
          /\ InFlight(c) =>
               (Pending(c) = 1 /\ r.log[Len(r.log)].svc = r.pc)
          /\ r.pc = "done" => (Pending(c) = 0 /\ r.error = "")
          /\ r.pc = "failed" => (Pending(c) = 0 /\ r.error # "" /\ r.result = NoResult))

C18_Witness ==
  \E c \in CallIds :
    /\ kind = "Nlu"
    /\ calls[c].pc = "done"
    /\ Len(calls[c].log) = 4
    /\ Pending(c) = 0
    /\ calls[c].result.intents # <<>>

====
